---- MODULE Spec2Model ----
(***************************************************************************)
(* qsim: discrete-event simulator of a queueing network.                   *)
(*                                                                         *)
(*   simulator.py  Random / RandomFromList, Event, Queue, Simulator        *)
(*                 (network of queues, ARRIVAL / PASSAGE / DEPARTURE)      *)
(*   main.py       single-queue Simulator and the driver loop of main()    *)
(*                                                                         *)
(* Reals are modelled exactly as integers scaled by Scale: a value v of    *)
(* the sequence source stands for v / Scale, a clock value t for           *)
(* t / Scale, a routing probability p for p / Scale.  Range bounds         *)
(* (arrival_range, departure_range) are kept unscaled, as configured.      *)
(***************************************************************************)
EXTENDS Integers, Sequences, FiniteSets, TLC

Scale == 10

MaxSteps == 9
MaxMainSteps == 12
MaxPairSteps == 7

None == <<>>

ARRIVAL == "ARRIVAL"
PASSAGE == "PASSAGE"
DEPARTURE == "DEPARTURE"

RECURSIVE SumSeq(_)
SumSeq(s) == IF s = <<>> THEN 0 ELSE Head(s) + SumSeq(Tail(s))

(***************************************************************************)
(* Sequence sources.  `calls' is a history field: the number of next()     *)
(* calls made on the source so far.                                        *)
(***************************************************************************)
Random(a, c, m, seed) ==
    [kind |-> "Random", a |-> a, c |-> c, m |-> m, previous |-> seed,
     randoms |-> <<>>, next_idx |-> 0, calls |-> 0]

RandomFromList(randoms) ==
    [kind |-> "RandomFromList", a |-> 0, c |-> 0, m |-> 1, previous |-> 0,
     randoms |-> randoms, next_idx |-> 0, calls |-> 0]

\* Random.next: previous <- (a * previous + c) % m, returns previous / m.
Random_next(r) ==
    LET previous == ((r.a * r.previous) + r.c) % r.m
    IN  [val |-> (previous * Scale) \div r.m,
         rnd |-> [r EXCEPT !.previous = previous, !.calls = @ + 1]]

RandomFromList_next_early_wrap(r) ==
    LET next_idx == r.next_idx
    IN  [val |-> r.randoms[next_idx + 1],
         rnd |-> [r EXCEPT !.next_idx = IF r.next_idx + 2 >= Len(r.randoms)
                                        THEN 0 ELSE r.next_idx + 1,
                           !.calls = @ + 1]]

\* RandomFromList.next: returns randoms[next_idx], cursor wraps to 0.
\* Python indexes from 0, the sequence from 1.
RandomFromList_next(r) ==
    LET next_idx == r.next_idx
    IN  [val |-> r.randoms[next_idx + 1],
         rnd |-> [r EXCEPT !.next_idx = IF r.next_idx + 1 = Len(r.randoms)
                                        THEN 0 ELSE r.next_idx + 1,
                           !.calls = @ + 1]]

next(r) == IF r.kind = "Random" THEN Random_next(r) ELSE RandomFromList_next(r)

(***************************************************************************)
(* Events and the schedule (a heapq list).                                 *)
(***************************************************************************)
Event(time, kind, queue) == [time |-> time, kind |-> kind, queue |-> queue]

Event_eq(a, b) == a = b

Event_gt(a, b) == a.time > b.time

\* functools.total_ordering derives __lt__ from __gt__ and __eq__:
\* a < b  is  not (a > b) and a != b.
Event_lt(a, b) == ~Event_gt(a, b) /\ ~Event_eq(a, b)

\* heapq._siftdown(heap, startpos, pos) with 0-based positions.
RECURSIVE SiftDownLoop(_, _, _, _)
SiftDownLoop(heap, startpos, pos, newitem) ==
    IF pos > startpos
    THEN LET parentpos == (pos - 1) \div 2
             parent == heap[parentpos + 1]
         IN  IF Event_lt(newitem, parent)
             THEN SiftDownLoop([heap EXCEPT ![pos + 1] = parent],
                               startpos, parentpos, newitem)
             ELSE [heap EXCEPT ![pos + 1] = newitem]
    ELSE [heap EXCEPT ![pos + 1] = newitem]

siftdown(heap, startpos, pos) == SiftDownLoop(heap, startpos, pos, heap[pos + 1])

\* heapq._siftup(heap, pos): bubble the smaller child up to a leaf, then
\* sift the displaced item down from there.
RECURSIVE SiftUpLoop(_, _, _, _)
SiftUpLoop(heap, startpos, pos, newitem) ==
    LET endpos == Len(heap)
        childpos == 2 * pos + 1
    IN  IF childpos < endpos
        THEN LET rightpos == childpos + 1
                 c == IF rightpos < endpos
                         /\ ~Event_lt(heap[childpos + 1], heap[rightpos + 1])
                      THEN rightpos ELSE childpos
             IN  SiftUpLoop([heap EXCEPT ![pos + 1] = heap[c + 1]],
                            startpos, c, newitem)
        ELSE siftdown([heap EXCEPT ![pos + 1] = newitem], startpos, pos)

siftup(heap, pos) == SiftUpLoop(heap, pos, pos, heap[pos + 1])

heappush(heap, item) == siftdown(Append(heap, item), 0, Len(heap))

\* heapq.heappop on a non-empty heap: the returned item and the heap left.
heappop(heap) ==
    LET lastelt == heap[Len(heap)]
        rest == SubSeq(heap, 1, Len(heap) - 1)
    IN  IF rest # <<>>
        THEN [item |-> heap[1], heap |-> siftup([rest EXCEPT ![1] = lastelt], 0)]
        ELSE [item |-> lastelt, heap |-> rest]

(***************************************************************************)
(* Queue (simulator.py).  `out' keeps the declaration order of the dict:   *)
(* a sequence of [q |-> destination name, p |-> probability * Scale].      *)
(* times_per_size is a Python list indexed from 0: entry i is at i + 1.    *)
(***************************************************************************)
Range(start, stop) == [start |-> start, stop |-> stop]

Queue_never_end(name, servers, max_queue_size, departure_range, out) ==
    [name |-> name,
     servers |-> servers,
     max_queue_size |-> max_queue_size,
     departure_range |-> departure_range,
     out |-> out,
     is_end |-> FALSE,
     in_queue |-> 0,
     times_per_size |-> [i \in 1..(max_queue_size + 1) |-> 0],
     events_lost |-> 0]

Queue(name, servers, max_queue_size, departure_range, out) ==
    [name |-> name,
     servers |-> servers,
     max_queue_size |-> max_queue_size,
     departure_range |-> departure_range,
     out |-> out,
     is_end |-> Len(out) = 0,
     in_queue |-> 0,
     times_per_size |-> [i \in 1..(max_queue_size + 1) |-> 0],
     events_lost |-> 0]

is_full_gt(q) == q.in_queue > q.max_queue_size

is_full(q) == q.in_queue >= q.max_queue_size

(***************************************************************************)
(* Simulator (simulator.py).  Events refer to queues by name; `order' is   *)
(* the iteration order of the queues dict; `error' is the exception that   *)
(* ended the run, "" while none was raised; `pushed' is history: the       *)
(* pending events in the order heappush received them.                     *)
(***************************************************************************)
NoChoice == "None"

RECURSIVE QueueNames(_)
QueueNames(queues) ==
    IF queues = <<>> THEN <<>> ELSE <<Head(queues).name>> \o QueueNames(Tail(queues))

Simulator(queues, start_queue, arrival_range, random) ==
    LET names == QueueNames(queues)
        nameset == {names[i] : i \in 1..Len(names)}
    IN  [queues |-> [n \in nameset |->
                        LET i == CHOOSE j \in 1..Len(queues) : queues[j].name = n
                        IN  queues[i]],
         order |-> names,
         start_queue |-> start_queue,
         arrival_range |-> arrival_range,
         random |-> random,
         schedule |-> <<>>,
         pushed |-> <<>>,
         time |-> 0,
         random_generated |-> 0,
         error |-> IF start_queue \in nameset THEN "" ELSE "KeyError"]

\* Python list index: a negative index counts from the end.
ListPos(list, i) == IF i < 0 THEN Len(list) + i + 1 ELSE i + 1

\* _set_time: the loop over self.queues.values(), stopped by an IndexError.
RECURSIVE SetTimeLoop(_, _, _)
SetTimeLoop(s, k, delta) ==
    IF k > Len(s.order) THEN s
    ELSE LET n == s.order[k]
             q == s.queues[n]
             pos == ListPos(q.times_per_size, q.in_queue)
         IN  IF pos \in 1..Len(q.times_per_size)
             THEN SetTimeLoop(
                      [s EXCEPT !.queues[n].times_per_size[pos] = @ + delta],
                      k + 1, delta)
             ELSE [s EXCEPT !.error = "IndexError"]

_set_time_total(s, time) ==
    LET s1 == SetTimeLoop(s, 1, time)
    IN  IF s1.error # "" THEN s1 ELSE [s1 EXCEPT !.time = time]

_set_time(s, time) ==
    LET delta == time - s.time
        s1 == SetTimeLoop(s, 1, delta)
    IN  IF s1.error # "" THEN s1 ELSE [s1 EXCEPT !.time = time]

\* _get_arrival_time / _get_departure_time: the drawn duration (scaled) and
\* the simulator after the draw.
_get_arrival_time(s) ==
    LET r == next(s.random)
    IN  [val |-> r.val * (s.arrival_range.stop - s.arrival_range.start)
                 + s.arrival_range.start * Scale,
         sim |-> [s EXCEPT !.random_generated = @ + 1, !.random = r.rnd]]

_get_departure_time(s, queue) ==
    LET r == next(s.random)
        dr == s.queues[queue].departure_range
    IN  [val |-> r.val * (dr.stop - dr.start) + dr.start * Scale,
         sim |-> [s EXCEPT !.random_generated = @ + 1, !.random = r.rnd]]

_schedule_arrival(s, time) ==
    LET r == IF time = None THEN _get_arrival_time(s)
             ELSE [val |-> time[1], sim |-> s]
    IN  [r.sim EXCEPT
            !.schedule = heappush(@, Event(s.time + r.val, ARRIVAL, s.start_queue)),
            !.pushed = Append(@, Event(s.time + r.val, ARRIVAL, s.start_queue))]

_schedule_passage(s, queue) ==
    LET r == _get_departure_time(s, queue)
    IN  [r.sim EXCEPT
            !.schedule = heappush(@, Event(s.time + r.val, PASSAGE, queue)),
            !.pushed = Append(@, Event(s.time + r.val, PASSAGE, queue))]

_schedule_departure(s, queue) ==
    LET r == _get_departure_time(s, queue)
    IN  [r.sim EXCEPT
            !.schedule = heappush(@, Event(s.time + r.val, DEPARTURE, queue)),
            !.pushed = Append(@, Event(s.time + r.val, DEPARTURE, queue))]

\* The loop of _get_destination over queue.out.items(): x is the running
\* value, choice the last name assigned so far.
RECURSIVE DestinationLoop(_, _, _, _)
DestinationLoop(out, i, x, choice) ==
    IF i > Len(out) THEN choice
    ELSE LET x1 == x - out[i].p
         IN  DestinationLoop(out, i + 1, x1, IF x1 <= 0 THEN out[i].q ELSE choice)

\* The same loop leaving at the first crossing.
RECURSIVE DestinationLoopBreak(_, _, _, _)
DestinationLoopBreak(out, i, x, choice) ==
    IF i > Len(out) THEN choice
    ELSE LET x1 == x - out[i].p
         IN  IF x1 <= 0 THEN out[i].q
             ELSE DestinationLoopBreak(out, i + 1, x1, choice)

_get_destination_first(queue, x) == DestinationLoopBreak(queue.out, 1, x, NoChoice)

\* _get_destination: x is the value random() of the standard library
\* returned; the result is the name looked up in self.queues (NoChoice when
\* no entry brought x to or below zero).
_get_destination(queue, x) == DestinationLoop(queue.out, 1, x, NoChoice)

Enter_always_served(s, n) ==
    IF ~is_full(s.queues[n])
    THEN LET s1 == [s EXCEPT !.queues[n].in_queue = @ + 1]
         IN  IF s1.queues[n].is_end
             THEN _schedule_departure(s1, n)
             ELSE _schedule_passage(s1, n)
    ELSE [s EXCEPT !.queues[n].events_lost = @ + 1]

\* The entry attempt shared by _arrive and _pass: the client enters queue n
\* unless it is full, and is served at once if a server is free.
Enter(s, n) ==
    IF ~is_full(s.queues[n])
    THEN LET s1 == [s EXCEPT !.queues[n].in_queue = @ + 1]
         IN  IF s1.queues[n].in_queue <= s1.queues[n].servers
             THEN IF s1.queues[n].is_end
                  THEN _schedule_departure(s1, n)
                  ELSE _schedule_passage(s1, n)
             ELSE s1
    ELSE [s EXCEPT !.queues[n].events_lost = @ + 1]

start_always_draws(s, time) == _schedule_arrival(s, None)

start(s, time) == _schedule_arrival(s, time)

_arrive_no_reschedule(s, e) ==
    LET s1 == _set_time(s, e.time)
    IN  IF s1.error # "" THEN s1
        ELSE IF ~is_full(s1.queues[s1.start_queue])
             THEN _schedule_arrival(Enter(s1, s1.start_queue), None)
             ELSE Enter(s1, s1.start_queue)

_arrive(s, e) ==
    LET s1 == _set_time(s, e.time)
    IN  IF s1.error # "" THEN s1
        ELSE _schedule_arrival(Enter(s1, s1.start_queue), None)

_pass_lost_at_source(s, e, x) ==
    LET s1 == _set_time(s, e.time)
        queue == e.queue
        s2 == [s1 EXCEPT !.queues[queue].in_queue = @ - 1]
        s3 == IF s2.queues[queue].in_queue >= s2.queues[queue].servers
              THEN _schedule_passage(s2, queue) ELSE s2
        destination == _get_destination(s3.queues[queue], x)
    IN  IF s1.error # "" THEN s1
        ELSE IF destination \notin DOMAIN s3.queues
             THEN [s3 EXCEPT !.error = "KeyError"]
             ELSE IF is_full(s3.queues[destination])
                  THEN [s3 EXCEPT !.queues[queue].events_lost = @ + 1]
                  ELSE Enter(s3, destination)

_pass(s, e, x) ==
    LET s1 == _set_time(s, e.time)
        queue == e.queue
        s2 == [s1 EXCEPT !.queues[queue].in_queue = @ - 1]
        s3 == IF s2.queues[queue].in_queue >= s2.queues[queue].servers
              THEN _schedule_passage(s2, queue) ELSE s2
        destination == _get_destination(s3.queues[queue], x)
    IN  IF s1.error # "" THEN s1
        ELSE IF destination \notin DOMAIN s3.queues
             THEN [s3 EXCEPT !.error = "KeyError"]
             ELSE Enter(s3, destination)

_depart_decrement_first(s, e) ==
    LET queue == e.queue
        s1 == [s EXCEPT !.queues[queue].in_queue = @ - 1]
        s2 == _set_time(s1, e.time)
    IN  IF s2.error # "" THEN s2
        ELSE IF s2.queues[queue].in_queue >= s2.queues[queue].servers
             THEN _schedule_departure(s2, queue) ELSE s2

_depart(s, e) ==
    LET s1 == _set_time(s, e.time)
        queue == e.queue
        s2 == [s1 EXCEPT !.queues[queue].in_queue = @ - 1]
    IN  IF s1.error # "" THEN s1
        ELSE IF s2.queues[queue].in_queue >= s2.queues[queue].servers
             THEN _schedule_departure(s2, queue) ELSE s2

\* The history of pushes without the oldest push of event e.
RemoveFirst(pushed, e) ==
    LET i == CHOOSE j \in 1..Len(pushed) :
                 pushed[j] = e /\ \A k \in 1..(j - 1) : pushed[k] # e
    IN  SubSeq(pushed, 1, i - 1) \o SubSeq(pushed, i + 1, Len(pushed))

_pop_next_event_last(s) ==
    [item |-> s.schedule[Len(s.schedule)],
     sim |-> [s EXCEPT !.schedule = SubSeq(@, 1, Len(@) - 1),
                       !.pushed = RemoveFirst(@, s.schedule[Len(s.schedule)])]]

_pop_next_event(s) ==
    LET r == heappop(s.schedule)
    IN  [item |-> r.item,
         sim |-> [s EXCEPT !.schedule = r.heap,
                           !.pushed = RemoveFirst(@, r.item)]]

\* Simulator.step: dispatch on the kind of the popped event.
step(s, x) ==
    LET r == _pop_next_event(s)
    IN  IF r.item.kind = ARRIVAL THEN _arrive(r.sim, r.item)
        ELSE IF r.item.kind = PASSAGE THEN _pass(r.sim, r.item, x)
        ELSE _depart(r.sim, r.item)

(***************************************************************************)
(* main.py: the single-queue Simulator and the driver loop of main().      *)
(***************************************************************************)
Main_Event(time, is_arrival) == [time |-> time, is_arrival |-> is_arrival]

Main_Simulator(servers, max_queue_size, arrival_range, departure_range, random) ==
    [servers |-> servers,
     max_queue_size |-> max_queue_size,
     arrival_range |-> arrival_range,
     departure_range |-> departure_range,
     random |-> random,
     schedule |-> <<>>,
     in_queue |-> 0,
     time |-> 0,
     times_per_size |-> [i \in 1..(max_queue_size + 1) |-> 0],
     random_generated |-> 0,
     events_lost |-> 0]

Main_is_full(s) == s.in_queue >= s.max_queue_size

Main_set_time(s, delta) ==
    [s EXCEPT !.times_per_size[ListPos(s.times_per_size, s.in_queue)] =
                  @ + (delta - s.time),
              !.time = delta]

Main_get_arrival_time_uncounted(s) ==
    LET r == next(s.random)
    IN  [val |-> r.val * (s.arrival_range.stop - s.arrival_range.start)
                 + s.arrival_range.start * Scale,
         sim |-> [s EXCEPT !.random = r.rnd]]

Main_get_arrival_time(s) ==
    LET r == next(s.random)
    IN  [val |-> r.val * (s.arrival_range.stop - s.arrival_range.start)
                 + s.arrival_range.start * Scale,
         sim |-> [s EXCEPT !.random_generated = @ + 1, !.random = r.rnd]]

Main_get_departure_time(s) ==
    LET r == next(s.random)
    IN  [val |-> r.val * (s.departure_range.stop - s.departure_range.start)
                 + s.departure_range.start * Scale,
         sim |-> [s EXCEPT !.random_generated = @ + 1, !.random = r.rnd]]

Main_schedule_arrival(s, time) ==
    LET r == IF time = None THEN Main_get_arrival_time(s)
             ELSE [val |-> time[1], sim |-> s]
    IN  [r.sim EXCEPT !.schedule = heappush(@, Main_Event(s.time + r.val, TRUE))]

Main_schedule_departure(s) ==
    LET r == Main_get_departure_time(s)
    IN  [r.sim EXCEPT !.schedule = heappush(@, Main_Event(s.time + r.val, FALSE))]

Main_start(s, time) == Main_schedule_arrival(s, time)

Main_arrive(s, e) ==
    LET s1 == Main_set_time(s, e.time)
        s2 == IF ~Main_is_full(s1)
              THEN LET s3 == [s1 EXCEPT !.in_queue = @ + 1]
                   IN  IF s3.in_queue <= s3.servers
                       THEN Main_schedule_departure(s3) ELSE s3
              ELSE [s1 EXCEPT !.events_lost = @ + 1]
    IN  Main_schedule_arrival(s2, None)

Main_depart(s, e) ==
    LET s1 == Main_set_time(s, e.time)
        s2 == [s1 EXCEPT !.in_queue = @ - 1]
    IN  IF s2.in_queue >= s2.servers THEN Main_schedule_departure(s2) ELSE s2

Main_pop_next_event(s) ==
    LET r == heappop(s.schedule)
    IN  [item |-> r.item, sim |-> [s EXCEPT !.schedule = r.heap]]

(***************************************************************************)
(* State.                                                                  *)
(*   sim         the Simulator of simulator.py                             *)
(*   start_time  the argument the caller passes to start()                 *)
(*   started     start() has been called                                   *)
(*   steps       number of step() calls made                               *)
(*   last        history: the event processed by the last step(), the      *)
(*               value x random() returned in it and the destination       *)
(*               looked up (PASSAGE only), and the numbers of ARRIVAL and  *)
(*               DEPARTURE events processed so far                         *)
(*   std_draws   history: number of random() calls of the standard         *)
(*               library made so far                                       *)
(*   sim2        a second Simulator built from the same configuration      *)
(*   tied        history: whether two pending events of one schedule ever  *)
(*               had the same time                                         *)
(* main.py:                                                                *)
(*   msim        the Simulator of main.py                                  *)
(*   params      Parameters: start_time and random_limit                   *)
(*   pc          position of main(): "start" before simulator.start,       *)
(*               "loop" at the test of the while loop, "done" after it     *)
(*   random_remaining, last_random_generated   the locals of main()        *)
(*   msteps      number of iterations of the loop made                     *)
(***************************************************************************)
VARIABLES sim, start_time, started, steps, last, std_draws, sim2, tied,
          msim, params, pc, random_remaining, last_random_generated, msteps

netvars == <<sim, start_time, started, steps, last, std_draws, sim2, tied>>

mainvars == <<msim, params, pc, random_remaining, last_random_generated, msteps>>

vars == <<sim, start_time, started, steps, last, std_draws, sim2, tied,
          msim, params, pc, random_remaining, last_random_generated, msteps>>

\* Values random() of the standard library may return (scaled).
StdDraws == {0, 2, 5, 9}

\* Two events of the schedule of s have the same time.
Tied(s) ==
    \E i, j \in 1..Len(s.schedule) :
        i # j /\ s.schedule[i].time = s.schedule[j].time

Out(q, p) == [q |-> q, p |-> p]

Networks ==
    { [queues |-> <<Queue("A", 1, 2, Range(1, 3), <<>>)>>, start_queue |-> "A"],
      [queues |-> <<Queue("A", 2, 2, Range(1, 2), <<>>)>>, start_queue |-> "A"],
      [queues |-> <<Queue("A", 1, 1, Range(1, 2), <<Out("B", 10)>>),
                    Queue("B", 1, 2, Range(2, 4), <<>>)>>, start_queue |-> "A"],
      [queues |-> <<Queue("A", 2, 3, Range(0, 1), <<Out("B", 10)>>),
                    Queue("B", 1, 1, Range(5, 8), <<>>)>>, start_queue |-> "A"],
      [queues |-> <<Queue("A", 1, 2, Range(1, 2), <<Out("B", 3), Out("C", 7)>>),
                    Queue("B", 1, 1, Range(1, 2), <<>>),
                    Queue("C", 1, 2, Range(2, 3), <<>>)>>, start_queue |-> "A"],
      [queues |-> <<Queue("A", 1, 2, Range(1, 2), <<Out("B", 5), Out("A", 5)>>),
                    Queue("B", 1, 1, Range(1, 2), <<>>)>>, start_queue |-> "A"],
      [queues |-> <<Queue("A", 1, 2, Range(0, 2), <<Out("B", 10)>>),
                    Queue("B", 2, 2, Range(1, 2), <<Out("A", 5), Out("C", 5)>>),
                    Queue("C", 1, 1, Range(1, 3), <<>>)>>, start_queue |-> "A"] }

ArrivalRanges == {Range(0, 1), Range(1, 2), Range(5, 6)}

Sources == {RandomFromList(<<0, 5>>), RandomFromList(<<9, 2, 5>>), Random(3, 7, 10, 1)}

StartTimes == {None, <<0>>, <<20>>}

NoLast == [kind |-> "", queue |-> "", time |-> 0, x |-> 0, destination |-> "",
           arrivals |-> 0, departures |-> 0]

NetInit(n, ar, rnd, st) ==
    /\ sim = Simulator(n.queues, n.start_queue, ar, rnd)
    /\ sim2 = Simulator(n.queues, n.start_queue, ar, rnd)
    /\ start_time = st
    /\ started = FALSE
    /\ steps = 0
    /\ last = NoLast
    /\ std_draws = 0
    /\ tied = FALSE

\* main.py: (servers, max_queue_size) and the ranges of the parameters file.
MainSizes == {<<1, 1>>, <<1, 2>>, <<2, 2>>, <<2, 3>>}

MainDepartureRanges == {Range(0, 1), Range(1, 3)}

RandomLimits == {0, 1, 2, 3, 5}

MainInit(sz, ar, dr, rnd, st, lim) ==
    /\ msim = Main_Simulator(sz[1], sz[2], ar, dr, rnd)
    /\ params = [start_time |-> st, random_limit |-> lim]
    /\ pc = "start"
    /\ random_remaining = 0
    /\ last_random_generated = 0
    /\ msteps = 0

Init ==
    /\ \E n \in Networks, ar \in ArrivalRanges, rnd \in Sources, st \in StartTimes :
            NetInit(n, ar, rnd, st)
    /\ MainInit(<<1, 1>>, Range(1, 2), Range(1, 3), RandomFromList(<<0, 5>>), None, 0)

\* simulator.start(time)
Start ==
    /\ ~started
    /\ sim.error = ""
    /\ sim' = start(sim, start_time)
    /\ started' = TRUE
    /\ UNCHANGED <<start_time, steps, last, std_draws, sim2>>
    /\ tied' = (tied \/ Tied(sim') \/ Tied(sim2'))
    /\ UNCHANGED mainvars

CanStep(s) == s.error = "" /\ s.schedule # <<>>

\* step() popping an ARRIVAL event
StepArrival ==
    /\ started /\ steps < MaxSteps /\ CanStep(sim)
    /\ LET r == _pop_next_event(sim)
       IN  /\ r.item.kind = ARRIVAL
           /\ sim' = _arrive(r.sim, r.item)
           /\ last' = [kind |-> ARRIVAL, queue |-> r.item.queue,
                       time |-> r.item.time, x |-> 0, destination |-> "",
                       arrivals |-> last.arrivals + 1,
                       departures |-> last.departures]
    /\ steps' = steps + 1
    /\ UNCHANGED <<start_time, started, std_draws, sim2>>
    /\ tied' = (tied \/ Tied(sim') \/ Tied(sim2'))
    /\ UNCHANGED mainvars

\* step() popping a PASSAGE event; x is what random() returns
StepPassage ==
    /\ started /\ steps < MaxSteps /\ CanStep(sim)
    /\ LET r == _pop_next_event(sim)
       IN  /\ r.item.kind = PASSAGE
           /\ \E x \in StdDraws :
                /\ sim' = _pass(r.sim, r.item, x)
                /\ last' = [kind |-> PASSAGE, queue |-> r.item.queue,
                            time |-> r.item.time, x |-> x,
                            destination |->
                                _get_destination(sim.queues[r.item.queue], x),
                            arrivals |-> last.arrivals,
                            departures |-> last.departures]
    /\ std_draws' = std_draws + 1
    /\ steps' = steps + 1
    /\ UNCHANGED <<start_time, started, sim2>>
    /\ tied' = (tied \/ Tied(sim') \/ Tied(sim2'))
    /\ UNCHANGED mainvars

\* step() popping a DEPARTURE event
StepDeparture ==
    /\ started /\ steps < MaxSteps /\ CanStep(sim)
    /\ LET r == _pop_next_event(sim)
       IN  /\ r.item.kind = DEPARTURE
           /\ sim' = _depart(r.sim, r.item)
           /\ last' = [kind |-> DEPARTURE, queue |-> r.item.queue,
                       time |-> r.item.time, x |-> 0, destination |-> "",
                       arrivals |-> last.arrivals,
                       departures |-> last.departures + 1]
    /\ steps' = steps + 1
    /\ UNCHANGED <<start_time, started, std_draws, sim2>>
    /\ tied' = (tied \/ Tied(sim') \/ Tied(sim2'))
    /\ UNCHANGED mainvars

Next == Start \/ StepArrival \/ StepPassage \/ StepDeparture

Spec == Init /\ [][Next]_vars

(***************************************************************************)
(* Two Simulators built from the same configuration, stepped together;     *)
(* each makes its own random() calls.                                      *)
(***************************************************************************)
PairStart ==
    /\ ~started
    /\ sim.error = "" /\ sim2.error = ""
    /\ sim' = start(sim, start_time)
    /\ sim2' = start(sim2, start_time)
    /\ started' = TRUE
    /\ UNCHANGED <<start_time, steps, last, std_draws>>
    /\ tied' = (tied \/ Tied(sim') \/ Tied(sim2'))
    /\ UNCHANGED mainvars

PairStep ==
    /\ started /\ steps < MaxPairSteps /\ CanStep(sim) /\ CanStep(sim2)
    /\ \E x \in StdDraws, y \in StdDraws :
            /\ sim' = step(sim, x)
            /\ sim2' = step(sim2, y)
    /\ steps' = steps + 1
    /\ UNCHANGED <<start_time, started, last, std_draws>>
    /\ tied' = (tied \/ Tied(sim') \/ Tied(sim2'))
    /\ UNCHANGED mainvars

PairNext == PairStart \/ PairStep

PairSpec == Init /\ [][PairNext]_vars

(***************************************************************************)
(* main(): lines 180-187 of main.py.                                       *)
(***************************************************************************)
MainSpecInit ==
    /\ NetInit(CHOOSE n \in Networks : Len(n.queues) = 3 /\ n.queues[2].servers = 1,
               Range(1, 2), RandomFromList(<<0, 5>>), None)
    /\ \E sz \in MainSizes, ar \in ArrivalRanges, dr \in MainDepartureRanges,
          rnd \in Sources, st \in StartTimes, lim \in RandomLimits :
            MainInit(sz, ar, dr, rnd, st, lim)

\* simulator.start(params.start_time) and the initialisation of the locals
MainStart ==
    /\ pc = "start"
    /\ msim' = Main_start(msim, params.start_time)
    /\ last_random_generated' = 0
    /\ random_remaining' = params.random_limit
    /\ pc' = "loop"
    /\ UNCHANGED <<params, msteps>>
    /\ UNCHANGED netvars

\* The locals of main() after one iteration that left the simulator as s.
MainAccount(s) ==
    /\ msim' = s
    /\ random_remaining' = random_remaining - (s.random_generated - last_random_generated)
    /\ last_random_generated' = s.random_generated
    /\ msteps' = msteps + 1
    /\ UNCHANGED <<params, pc>>
    /\ UNCHANGED netvars

\* one iteration of the loop whose step() pops an arrival
MainStepArrival ==
    /\ pc = "loop" /\ random_remaining > 0 /\ msteps < MaxMainSteps
    /\ msim.schedule # <<>>
    /\ \E r \in {Main_pop_next_event(msim)} :
            /\ r.item.is_arrival
            /\ \E s \in {Main_arrive(r.sim, r.item)} : MainAccount(s)

\* one iteration of the loop whose step() pops a departure
MainStepDeparture ==
    /\ pc = "loop" /\ random_remaining > 0 /\ msteps < MaxMainSteps
    /\ msim.schedule # <<>>
    /\ \E r \in {Main_pop_next_event(msim)} :
            /\ ~r.item.is_arrival
            /\ \E s \in {Main_depart(r.sim, r.item)} : MainAccount(s)

\* the loop test fails
MainExit ==
    /\ pc = "loop" /\ ~(random_remaining > 0)
    /\ pc' = "done"
    /\ UNCHANGED <<msim, params, random_remaining, last_random_generated, msteps>>
    /\ UNCHANGED netvars

MainNext == MainStart \/ MainStepArrival \/ MainStepDeparture \/ MainExit

MainSpec == MainSpecInit /\ [][MainNext]_vars

\* main() is a sequential program: it keeps running while it can.
FairMainSpec == MainSpec /\ WF_vars(MainNext)

(***************************************************************************)
(* Properties.                                                             *)
(***************************************************************************)
InitialClock == 0

\* C1: every queue's occupancy stays within 0..max_queue_size, whatever
\* ARRIVAL, PASSAGE and DEPARTURE steps have been taken.
C1_OccupancyInRange ==
    \A n \in DOMAIN sim.queues :
        /\ 0 <= sim.queues[n].in_queue
        /\ sim.queues[n].in_queue <= sim.queues[n].max_queue_size

\* A queue is at capacity, has rejected a client, and a departure has just
\* been processed.
C1_Witness ==
    /\ last.kind = DEPARTURE
    /\ \E n \in DOMAIN sim.queues :
          /\ sim.queues[n].in_queue = sim.queues[n].max_queue_size
          /\ sim.queues[n].events_lost > 0

\* C2: conservation of time: after start() and after every step, the
\* entries of times_per_size of every queue add up to the clock minus the
\* initial clock.
C2_ConservationOfTime ==
    \A n \in DOMAIN sim.queues :
        SumSeq(sim.queues[n].times_per_size) = sim.time - InitialClock

\* Time has passed at two different occupancies of some queue.
C2_Witness ==
    /\ steps >= 3
    /\ \E n \in DOMAIN sim.queues :
          \E i, j \in 1..Len(sim.queues[n].times_per_size) :
              /\ i # j
              /\ sim.queues[n].times_per_size[i] > 0
              /\ sim.queues[n].times_per_size[j] > 0

RangeValid(r) == 0 <= r.start /\ r.start <= r.stop

RangesValid(s, st) ==
    /\ RangeValid(s.arrival_range)
    /\ \A n \in DOMAIN s.queues : RangeValid(s.queues[n].departure_range)
    /\ st # None => st[1] >= 0

\* C3: with ranges 0 <= low <= high and a non-negative forced start time,
\* the event popped by a step is never earlier than the clock, the clock
\* becomes its time, and no event left pending is earlier than the new clock.
C3_NonDecreasingTimes ==
    [][(RangesValid(sim, start_time) /\ steps' = steps + 1) =>
            /\ sim'.time >= sim.time
            /\ last'.time = sim'.time
            /\ \A i \in 1..Len(sim'.schedule) : sim'.schedule[i].time >= sim'.time
      ]_vars

\* Several events at different times are pending after a few steps.
C3_Witness ==
    /\ steps >= 4
    /\ sim.time > 0
    /\ \E i, j \in 1..Len(sim.schedule) :
          sim.schedule[i].time < sim.schedule[j].time

\* C4: the destination of a PASSAGE is the first outbound entry, in
\* declaration order, at which the draw minus the cumulated probabilities
\* becomes <= 0 (outbound [(B,0.3),(C,0.7)]: a draw of 0.2 routes to B).
C4_RoutesToFirstCrossing ==
    last.kind = PASSAGE =>
        last.destination = _get_destination_first(sim.queues[last.queue], last.x)

\* C5: after start(), at every step boundary exactly one ARRIVAL event is
\* pending, so the schedule is never empty.
C5_OneArrivalPending ==
    (started /\ sim.error = "") =>
        /\ Cardinality({i \in 1..Len(sim.schedule) :
                            sim.schedule[i].kind = ARRIVAL}) = 1
        /\ sim.schedule # <<>>

\* An arrival has just been rejected by the full entry queue, and
\* completions are pending beside the next arrival.
C5_Witness ==
    /\ last.kind = ARRIVAL
    /\ sim.queues[sim.start_queue].events_lost > 0
    /\ is_full(sim.queues[sim.start_queue])
    /\ Len(sim.schedule) >= 2

\* C6: events_lost of a queue never decreases; a step increases it, by
\* one, only if the queue is the entry queue of an ARRIVAL or the routed
\* destination of a PASSAGE and is full when the client tries to enter (for
\* the source of the PASSAGE, after its own client has left), and then the
\* attempt does not raise its occupancy.  A DEPARTURE changes no loss count.
C6_LossOnlyWhenFull ==
    [][\A n \in DOMAIN sim.queues :
          LET q == sim.queues[n]
              q2 == sim'.queues[n]
              atAttempt == q.in_queue
                           - (IF last'.kind = PASSAGE /\ n = last'.queue THEN 1 ELSE 0)
              target == \/ last'.kind = ARRIVAL /\ n = sim.start_queue
                        \/ last'.kind = PASSAGE /\ n = last'.destination
          IN  /\ q2.events_lost >= q.events_lost
              /\ q2.events_lost # q.events_lost =>
                    /\ steps' = steps + 1
                    /\ q2.events_lost = q.events_lost + 1
                    /\ target
                    /\ atAttempt >= q.max_queue_size
                    /\ q2.in_queue = atAttempt
                    /\ last'.kind # DEPARTURE
      ]_vars

\* A PASSAGE has been processed whose destination, another queue than its
\* source and not the entry queue, is full and has rejected a client.
C6_Witness ==
    /\ last.kind = PASSAGE
    /\ last.destination \in DOMAIN sim.queues
    /\ last.destination # last.queue
    /\ last.destination # sim.start_queue
    /\ is_full(sim.queues[last.destination])
    /\ sim.queues[last.destination].events_lost > 0

C8_AllDrawsCounted ==
    sim.random_generated = sim.random.calls + std_draws

\* C9: when the loop of main() has stopped, random_generated does not
\* exceed random_limit.
C9_BudgetRespected ==
    pc = "done" => msim.random_generated <= params.random_limit

\* C10: the loop of main() eventually stops.
C10_LoopStops == <>(pc = "done")

\* The loop has stopped after several iterations under a positive budget.
C10_Witness ==
    /\ pc = "done"
    /\ params.random_limit >= 3
    /\ msteps >= 4
    /\ msim.events_lost > 0

\* The first value the configured source returns (sim2 is still as built).
FirstDraw == next(sim2.random).val

FirstArrivalTime(clock) ==
    IF start_time = None
    THEN clock + FirstDraw * (sim.arrival_range.stop - sim.arrival_range.start)
               + sim.arrival_range.start * Scale
    ELSE start_time[1]

AfterStartOnly(clock) ==
    /\ \A n \in DOMAIN sim.queues : sim.queues[n].in_queue = 0
    /\ sim.time = clock
    /\ Len(sim.schedule) = 1
    /\ sim.schedule[1].kind = ARRIVAL
    /\ sim.schedule[1].time = FirstArrivalTime(clock)
    /\ sim.random_generated = (IF start_time = None THEN 1 ELSE 0)
    /\ sim.random.calls = sim.random_generated

MalformedNetworks ==
    { [queues |-> <<Queue("A", 1, 2, Range(1, 2), <<Out("B", 3)>>),
                    Queue("B", 1, 1, Range(1, 2), <<>>)>>, start_queue |-> "A"],
      [queues |-> <<Queue("A", 1, 2, Range(1, 2), <<Out("B", 6), Out("C", 6)>>),
                    Queue("B", 1, 1, Range(1, 2), <<>>),
                    Queue("C", 1, 1, Range(1, 2), <<>>)>>, start_queue |-> "A"],
      [queues |-> <<Queue("A", 1, 2, Range(1, 2), <<Out("Z", 10)>>),
                    Queue("B", 1, 1, Range(1, 2), <<>>)>>, start_queue |-> "A"],
      [queues |-> <<Queue("A", 2, 1, Range(1, 3), <<>>)>>, start_queue |-> "A"],
      [queues |-> <<Queue("A", 1, 2, Range(1, 3), <<>>)>>, start_queue |-> "Z"] }

MalformedInit ==
    /\ \E n \in MalformedNetworks, ar \in ArrivalRanges, rnd \in Sources,
          st \in StartTimes :
            NetInit(n, ar, rnd, st)
    /\ MainInit(<<1, 1>>, Range(1, 2), Range(1, 3), RandomFromList(<<0, 5>>), None, 0)

MalformedSpec == MalformedInit /\ [][Next]_vars

RECURSIVE SumP(_)
SumP(out) == IF out = <<>> THEN 0 ELSE Head(out).p + SumP(Tail(out))

Malformed(s) ==
    \/ s.start_queue \notin DOMAIN s.queues
    \/ \E n \in DOMAIN s.queues :
          LET q == s.queues[n]
          IN  \/ q.out # <<>> /\ SumP(q.out) # Scale
              \/ \E i \in 1..Len(q.out) : q.out[i].q \notin DOMAIN s.queues
              \/ q.max_queue_size < q.servers

\* C12: a malformed network is rejected with an error when the Queue and
\* Simulator objects are built, so no step() is ever executed on it and no
\* error is raised at run time.
C12_RejectedAtConstruction ==
    Malformed(sim) => (steps = 0 /\ (started => sim.error = ""))

\* C13: for a non-empty replay list, the k-th call of next() (k = 0, 1,
\* ...) returns randoms[k mod len] and the cursor stays in 0..len-1; after
\* len calls the list is replayed from its first value, on every wrap.
C13_CyclicReplay ==
    sim.random.kind = "RandomFromList" =>
        LET r == sim.random
            len == Len(r.randoms)
        IN  /\ r.next_idx \in 0..(len - 1)
            /\ r.next_idx = r.calls % len
            /\ RandomFromList_next(r).val = r.randoms[(r.calls % len) + 1]

\* The list has been replayed at least twice and the cursor is back at 0.
C13_Witness ==
    /\ sim.random.kind = "RandomFromList"
    /\ sim.random.calls >= 2 * Len(sim.random.randoms)
    /\ sim.random.next_idx = 0
    /\ Len(sim.random.randoms) >= 3

\* C15: a step processing an event at time t adds exactly t - clock to
\* times_per_size[n_q] of every queue q, n_q being q's occupancy before the
\* step, leaves every other entry of every queue unchanged and sets the
\* clock to t, whatever the kind of the event and whether or not the event
\* touches q.
C15_ClockAdvanceAttribution ==
    [][(steps' = steps + 1 /\ sim'.error = "") =>
          /\ sim'.time = last'.time
          /\ \A n \in DOMAIN sim.queues :
               \A i \in 1..Len(sim.queues[n].times_per_size) :
                  sim'.queues[n].times_per_size[i] =
                      sim.queues[n].times_per_size[i]
                      + (IF i = sim.queues[n].in_queue + 1
                         THEN last'.time - sim.time ELSE 0)]_vars

\* A PASSAGE that advanced the clock was processed while a queue it does
\* not touch held a client, and that queue was credited at its level.
C15_Witness ==
    /\ steps > 0 /\ sim.error = ""
    /\ last.kind = PASSAGE
    /\ \E n \in DOMAIN sim.queues :
          /\ n # last.queue /\ n # last.destination
          /\ sim.queues[n].in_queue > 0
          /\ sim.queues[n].times_per_size[sim.queues[n].in_queue + 1] > 0
    /\ \E m \in DOMAIN sim.queues : sim.queues[m].times_per_size[1] < sim.time

\* Number of pending service-completion events (PASSAGE or DEPARTURE) of
\* queue n in the schedule of s.
Completions(s, n) ==
    Cardinality({i \in 1..Len(s.schedule) :
                    /\ s.schedule[i].kind \in {PASSAGE, DEPARTURE}
                    /\ s.schedule[i].queue = n})

Min(a, b) == IF a <= b THEN a ELSE b

\* C17: at every step boundary the number of pending service-completion
\* events of every queue equals min(in_queue, servers); a queue whose
\* servers equal its capacity never holds a waiting client.
C17_ServerContention ==
    sim.error = "" =>
        \A n \in DOMAIN sim.queues :
            LET q == sim.queues[n]
            IN  /\ Completions(sim, n) = Min(q.in_queue, q.servers)
                /\ q.servers = q.max_queue_size => q.in_queue <= q.servers

\* A completion of a queue has just been processed and the queue still
\* holds a waiting client while all its servers are busy.
C17_Witness ==
    /\ sim.error = "" /\ steps > 0
    /\ \E n \in DOMAIN sim.queues :
          /\ sim.queues[n].in_queue > sim.queues[n].servers
          /\ Completions(sim, n) = sim.queues[n].servers
          /\ last.kind \in {PASSAGE, DEPARTURE} /\ last.queue = n

\* C18: when a PASSAGE event of queue Q is routed back to Q, Q's occupancy
\* after the step equals its occupancy before, Q's events_lost is unchanged
\* (the re-entry is never rejected, even if Q was at capacity), and exactly
\* one new service-completion event for Q is scheduled: one was popped, so
\* the number pending for Q is unchanged and one random number was drawn.
C18_SelfLoop ==
    [][(/\ steps' = steps + 1
        /\ last'.kind = PASSAGE
        /\ last'.destination = last'.queue) =>
          LET Q == last'.queue
          IN  /\ sim'.error = ""
              /\ sim'.queues[Q].in_queue = sim.queues[Q].in_queue
              /\ sim'.queues[Q].events_lost = sim.queues[Q].events_lost
              /\ Completions(sim', Q) = Completions(sim, Q)
              /\ sim'.random_generated = sim.random_generated + 1]_vars

\* A PASSAGE was routed back to its own queue while the queue was at
\* capacity.
C18_Witness ==
    /\ steps > 0 /\ last.kind = PASSAGE
    /\ last.destination = last.queue
    /\ sim.queues[last.queue].in_queue = sim.queues[last.queue].max_queue_size

\* C19: at every step boundary every pending PASSAGE event references a
\* queue with a non-empty out and every pending DEPARTURE event references
\* a queue with an empty out; so the queue of every PASSAGE processed, the
\* one _get_destination is called for, has a non-empty routing table.
C19_KindMatchesTerminal ==
    /\ \A i \in 1..Len(sim.schedule) :
          LET e == sim.schedule[i]
          IN  /\ e.kind = PASSAGE => Len(sim.queues[e.queue].out) > 0
              /\ e.kind = DEPARTURE => Len(sim.queues[e.queue].out) = 0
    /\ last.kind = PASSAGE => Len(sim.queues[last.queue].out) > 0
    /\ last.kind = DEPARTURE => Len(sim.queues[last.queue].out) = 0

\* A PASSAGE and a DEPARTURE are pending together, after a PASSAGE was
\* processed.
C19_Witness ==
    /\ last.kind = PASSAGE
    /\ \E i, j \in 1..Len(sim.schedule) :
          /\ sim.schedule[i].kind = PASSAGE
          /\ sim.schedule[j].kind = DEPARTURE

\* Clients held by or lost at the queues of s.
HeldOrLost(s) ==
    SumSeq([k \in 1..Len(s.order) |->
               s.queues[s.order[k]].in_queue + s.queues[s.order[k]].events_lost])

\* C20: at every step boundary the number of ARRIVAL events processed equals
\* the sum of all occupancies plus the sum of all events_lost plus the
\* number of DEPARTURE events processed; and each PASSAGE moves exactly one
\* client: the source's occupancy drops by one and either the destination's
\* occupancy or the destination's events_lost grows by one, nothing else
\* changes.
C20_ClientConservation ==
    /\ [](sim.error = "" /\ last.arrivals = HeldOrLost(sim) + last.departures)
    /\ [][(steps' = steps + 1 /\ last'.kind = PASSAGE) =>
             LET Q == last'.queue
                 D == last'.destination
             IN  \A n \in DOMAIN sim.queues :
                    LET d_in == sim'.queues[n].in_queue - sim.queues[n].in_queue
                        d_lost == sim'.queues[n].events_lost
                                  - sim.queues[n].events_lost
                    IN  /\ d_lost \in {0, 1}
                        /\ d_lost = 1 => n = D
                        /\ d_in + d_lost = (IF n = D THEN 1 ELSE 0)
                                           - (IF n = Q THEN 1 ELSE 0)]_vars

\* Clients are held, lost and departed at once, and the last PASSAGE lost
\* its client at a full destination.
C20_Witness ==
    /\ last.kind = PASSAGE /\ last.departures > 0
    /\ sim.queues[last.destination].events_lost > 0
    /\ sim.queues[last.destination].in_queue
           = sim.queues[last.destination].max_queue_size
    /\ last.destination # last.queue
    /\ \E n \in DOMAIN sim.queues : sim.queues[n].in_queue > 0

\* C16: when several pending events have the same time they are popped in
\* the order in which they were pushed: the event a step pops is the oldest
\* push among the pending events of its time.
C16_TieBreakFIFO ==
    [][(steps' = steps + 1) =>
          LET e == Event(last'.time, last'.kind, last'.queue)
          IN  \A i \in 1..Len(sim.pushed) :
                 (sim.pushed[i].time = e.time /\ sim.pushed[i] # e) =>
                     \E j \in 1..(i - 1) : sim.pushed[j] = e]_vars

(***************************************************************************)
(* A two-queue network A -> B (sim) and the single queue B (sim2), each    *)
(* driven by the loop of main(): step while fewer than random_limit        *)
(* numbers have been drawn.                                                *)
(***************************************************************************)
CompEntries ==
    { Queue("A", 1, 1, Range(0, 0), <<Out("B", 10)>>),
      Queue("A", 2, 2, Range(0, 0), <<Out("B", 10)>>),
      Queue("A", 1, 2, Range(1, 2), <<Out("B", 10)>>) }

CompTerminals ==
    { Queue("B", 1, 1, Range(1, 2), <<>>),
      Queue("B", 1, 2, Range(1, 3), <<>>),
      Queue("B", 2, 3, Range(2, 4), <<>>) }

CompSources ==
    { RandomFromList(<<2>>), RandomFromList(<<5>>), RandomFromList(<<0, 0>>),
      RandomFromList(<<0, 5>>) }

CompLimits == {0, 3, 8, 12}

CompInit ==
    /\ \E A \in CompEntries, B \in CompTerminals, ar \in ArrivalRanges,
          rnd \in CompSources, st \in StartTimes, lim \in CompLimits :
            /\ sim = Simulator(<<A, B>>, "A", ar, rnd)
            /\ sim2 = Simulator(<<B>>, "B", ar, rnd)
            /\ start_time = st
            /\ params = [start_time |-> st, random_limit |-> lim]
    /\ started = FALSE
    /\ steps = 0
    /\ last = NoLast
    /\ std_draws = 0
    /\ tied = FALSE
    /\ msim = Main_Simulator(1, 1, Range(1, 2), Range(1, 3), RandomFromList(<<0, 5>>))
    /\ pc = "start"
    /\ random_remaining = 0
    /\ last_random_generated = 0
    /\ msteps = 0

\* The test of the while loop: random_remaining is random_limit minus the
\* numbers drawn by the steps made so far.
Remaining(s) == params.random_limit - s.random_generated

CompStart ==
    /\ ~started
    /\ sim' = start(sim, start_time)
    /\ sim2' = start(sim2, start_time)
    /\ started' = TRUE
    /\ tied' = (tied \/ Tied(sim') \/ Tied(sim2'))
    /\ UNCHANGED <<start_time, steps, last, std_draws>>
    /\ UNCHANGED mainvars

\* One iteration of the loop on the network
CompStepNetwork ==
    /\ started /\ Remaining(sim) > 0 /\ CanStep(sim)
    /\ \E x \in StdDraws : sim' = step(sim, x)
    /\ tied' = (tied \/ Tied(sim'))
    /\ UNCHANGED <<start_time, started, steps, last, std_draws, sim2>>
    /\ UNCHANGED mainvars

\* One iteration of the loop on the single queue
CompStepSingle ==
    /\ started /\ Remaining(sim2) > 0 /\ CanStep(sim2)
    /\ \E x \in StdDraws : sim2' = step(sim2, x)
    /\ tied' = (tied \/ Tied(sim2'))
    /\ UNCHANGED <<start_time, started, steps, last, std_draws, sim>>
    /\ UNCHANGED mainvars

CompNext == CompStart \/ CompStepNetwork \/ CompStepSingle

CompSpec == CompInit /\ [][CompNext]_vars

\* The statistics of queue B the two runs report.
SameStatistics ==
    /\ sim.queues["B"].times_per_size = sim2.queues["B"].times_per_size
    /\ sim.queues["B"].events_lost = sim2.queues["B"].events_lost

\* C14 (as claimed): the network A -> B and the single queue B, driven by
\* the same arrival range, source and budget, end with the same final clock
\* and the same times_per_size and events_lost of B.
C14_CompositionLaw ==
    (started /\ Remaining(sim) <= 0 /\ Remaining(sim2) <= 0) =>
        (sim.time = sim2.time /\ SameStatistics)

PassagePending(s) ==
    \E i \in 1..Len(s.schedule) : s.schedule[i].kind = PASSAGE

ConstantSource(r) ==
    /\ r.kind = "RandomFromList"
    /\ \A i, j \in 1..Len(r.randoms) : r.randoms[i] = r.randoms[j]

\* C14 (amended): when A's service range is (0, 0), the source replays one
\* constant value and no two pending events of either run ever had the same
\* time, then at every point where the two clocks are equal and positive
\* and the network has no PASSAGE pending, B's times_per_size and
\* events_lost equal those of the single queue.
C14_CompositionAtEqualClocks ==
    (/\ started
     /\ sim.queues["A"].departure_range = Range(0, 0)
     /\ ConstantSource(sim.random)
     /\ ~tied
     /\ sim.time = sim2.time /\ sim.time > 0
     /\ ~PassagePending(sim)) =>
        SameStatistics

\* The amended law's case with B having lost a client and holding a waiting
\* one, after the network drew more numbers than the single queue.
C14_Witness ==
    /\ started
    /\ sim.queues["A"].departure_range = Range(0, 0)
    /\ ConstantSource(sim.random)
    /\ ~tied
    /\ sim.time = sim2.time /\ sim.time > 0
    /\ ~PassagePending(sim)
    /\ sim.queues["B"].events_lost > 0
    /\ sim.queues["B"].in_queue > sim.queues["B"].servers
    /\ sim.random_generated > sim2.random_generated

====
